---- MODULE Spec2Model ----
(***************************************************************************)
(* Model of the Markdown formatting-removal engine (markdown_cleaner.py)    *)
(* and of the Streamlit page that calls it (main.py).                      *)
(*                                                                         *)
(* A text is a sequence of Unicode code points (naturals), so that ord(),  *)
(* the character classes of the regular expressions and the sanitizer's    *)
(* ranges are the ones of the source.  Regular expressions are values      *)
(* (trees of records) interpreted by a backtracking matcher that follows   *)
(* the priority order of Python's re module: leftmost match, alternatives  *)
(* left to right, greedy repetitions longest first, lazy ones shortest     *)
(* first.                                                                  *)
(***************************************************************************)
EXTENDS Integers, Sequences, FiniteSets, TLC

VARIABLES
    text,      \* the text to clean: the clipboard content / the caller's argument
    options,   \* the options argument: None or a dict from kinds to booleans
    fn,        \* the function called last ("none" before the first call)
    out,       \* what the last call returned
    prev,      \* what the call before it returned
    runs,      \* number of runs of clean_markdown so far
    session_state,   \* st.session_state of the Streamlit page
    clicked_text     \* history: the input text at the last click of "Clean Markdown"

vars == <<text, options, fn, out, prev, runs, session_state, clicked_text>>

-----------------------------------------------------------------------------
(* Code points of the characters the patterns and the inputs use. *)
TAB == 9
NL == 10
SP == 32
BANG == 33
AMP == 38
HASH == 35
LPAR == 40
RPAR == 41
STAR == 42
PLUS == 43
DASH == 45
DOT == 46
COLON == 58
LT == 60
GT == 62
LBRK == 91
RBRK == 93
USCORE == 95
BTICK == 96
PIPE == 124
TILDE == 126
CENT == 162
POUND == 163
CURRENCY == 164
YEN == 165
EURO == 8364

SLASH == 47
Lh == 104
Lp == 112
Ls == 115
Lt == 116

-----------------------------------------------------------------------------
(* Character classes of Python's re for str patterns (Unicode semantics),  *)
(* restricted to code points up to 383 and the band 8192..8303.            *)

\* \s : characters for which str.isspace() holds
WS == {9, 10, 11, 12, 13, 28, 29, 30, 31, 32, 133, 160}
        \cup (8192..8202) \cup {8232, 8233, 8239, 8287}

\* \d : decimal digits
DIGIT == 48..57

\* [a-zA-Z0-9]
ALNUM == (48..57) \cup (65..90) \cup (97..122)

\* \w : alphanumerics and the underscore
WORD == ALNUM \cup {95, 170, 178, 179, 181, 185, 186, 188, 189, 190}
          \cup (192..214) \cup (216..246) \cup (248..383)

-----------------------------------------------------------------------------
(* Regular-expression values. *)
In(S) == [t |-> "in", s |-> S]
NotIn(S) == [t |-> "notin", s |-> S]
Ch(c) == In({c})
Cat(l) == [t |-> "cat", l |-> l]
Alt(l) == [t |-> "alt", l |-> l]
Rep(r, lo, hi, greedy) == [t |-> "rep", r |-> r, lo |-> lo, hi |-> hi, greedy |-> greedy]
Grp(n, r) == [t |-> "grp", n |-> n, r |-> r]
Bol(multiline) == [t |-> "bol", m |-> multiline]
Eol(multiline) == [t |-> "eol", m |-> multiline]
\* (?<!x) and (?!x) for the one-character alternatives x in S
NotBehind(S) == [t |-> "notbehind", s |-> S]
NotAhead(S) == [t |-> "notahead", s |-> S]

\* hi = -1 stands for "no upper limit"
Star(r) == Rep(r, 0, -1, TRUE)
Plus(r) == Rep(r, 1, -1, TRUE)
Opt(r) == Rep(r, 0, 1, TRUE)
LazyStar(r) == Rep(r, 0, -1, FALSE)
AtLeast(r, n) == Rep(r, n, -1, TRUE)
\* "." without DOTALL excludes the newline, with DOTALL nothing
AnyChar(dotall) == IF dotall THEN NotIn({}) ELSE NotIn({NL})
Lit(str) == Cat([k \in 1..Len(str) |-> Ch(str[k])])

NoGroup == <<-1, -1>>
NoCaps == <<NoGroup, NoGroup, NoGroup>>
NoMatch == [ok |-> FALSE, end |-> 0, caps |-> NoCaps]

Dec(hi) == IF hi = -1 THEN -1 ELSE hi - 1

\* the character c is in the class r (an "in" or a "notin" node)
InClass(c, r) == IF r.t = "in" THEN c \in r.s ELSE c \notin r.s

\* the number of characters of s from position i on that are in the class r
RunLength(s, i, r) ==
    CHOOSE n \in 0..(Len(s) - i + 1) :
        /\ \A k \in 0..(n - 1) : InClass(s[i + k], r)
        /\ (i + n <= Len(s) => ~InClass(s[i + n], r))

\* M(s, stack, i, caps): match the regular expressions on the stack, one
\* after the other, against s from position i (1-based); the result is the
\* first match in the backtracking order, with the position after it.
\* Longest(..., lo, hi) and Shortest(..., lo, hi) are the repetitions of one
\* character class: the greatest (greedy) or the least (lazy) number of
\* characters in lo..hi after which the rest of the stack matches.  The
\* numbers are tried in that order, one half of the range after the other.
RECURSIVE M(_, _, _, _)
RECURSIVE MAlt(_, _, _, _, _)
RECURSIVE Longest(_, _, _, _, _, _)
RECURSIVE Shortest(_, _, _, _, _, _)
M(s, stack, i, caps) ==
    IF stack = <<>> THEN [ok |-> TRUE, end |-> i, caps |-> caps]
    ELSE LET h == Head(stack)
             rest == Tail(stack)
         IN CASE h.t = "in" ->
                   IF i <= Len(s) /\ s[i] \in h.s THEN M(s, rest, i + 1, caps) ELSE NoMatch
              [] h.t = "notin" ->
                   IF i <= Len(s) /\ s[i] \notin h.s THEN M(s, rest, i + 1, caps) ELSE NoMatch
              [] h.t = "cat" -> M(s, h.l \o rest, i, caps)
              [] h.t = "alt" -> MAlt(s, h.l, rest, i, caps)
              [] h.t = "grp" ->
                   M(s, <<h.r, [t |-> "close", n |-> h.n, from |-> i]>> \o rest, i, caps)
              [] h.t = "close" ->
                   M(s, rest, i, [caps EXCEPT ![h.n] = <<h.from, i>>])
              [] h.t = "bol" ->
                   IF i = 1 \/ (h.m /\ s[i - 1] = NL) THEN M(s, rest, i, caps) ELSE NoMatch
              [] h.t = "eol" ->
                   IF \/ i = Len(s) + 1
                      \/ (h.m /\ s[i] = NL)
                      \/ (~h.m /\ i = Len(s) /\ s[i] = NL)
                   THEN M(s, rest, i, caps) ELSE NoMatch
              [] h.t = "notbehind" ->
                   IF i > 1 /\ s[i - 1] \in h.s THEN NoMatch ELSE M(s, rest, i, caps)
              [] h.t = "notahead" ->
                   IF i <= Len(s) /\ s[i] \in h.s THEN NoMatch ELSE M(s, rest, i, caps)
              [] h.t = "rep" /\ h.r.t \in {"in", "notin"} ->
                   LET run == RunLength(s, i, h.r)
                       most == IF h.hi # -1 /\ h.hi < run THEN h.hi ELSE run
                   IN IF h.greedy THEN Longest(s, rest, i, caps, h.lo, most)
                      ELSE Shortest(s, rest, i, caps, h.lo, most)
              [] h.t = "rep" /\ h.r.t \notin {"in", "notin"} ->
                   LET more == M(s, <<h.r, Rep(h.r, IF h.lo > 0 THEN h.lo - 1 ELSE 0,
                                               Dec(h.hi), h.greedy)>> \o rest, i, caps)
                       stop == M(s, rest, i, caps)
                   IN IF h.lo > 0 THEN more
                      ELSE IF h.hi = 0 THEN stop
                      ELSE IF h.greedy THEN (IF more.ok THEN more ELSE stop)
                      ELSE (IF stop.ok THEN stop ELSE more)

Longest(s, rest, i, caps, lo, hi) ==
    IF hi < lo THEN NoMatch
    ELSE IF lo = hi THEN M(s, rest, i + hi, caps)
    ELSE LET mid == (lo + hi) \div 2
             m == Longest(s, rest, i, caps, mid + 1, hi)
         IN IF m.ok THEN m ELSE Longest(s, rest, i, caps, lo, mid)

Shortest(s, rest, i, caps, lo, hi) ==
    IF hi < lo THEN NoMatch
    ELSE IF lo = hi THEN M(s, rest, i + lo, caps)
    ELSE LET mid == (lo + hi) \div 2
             m == Shortest(s, rest, i, caps, lo, mid)
         IN IF m.ok THEN m ELSE Shortest(s, rest, i, caps, mid + 1, hi)

MAlt(s, alts, rest, i, caps) ==
    IF alts = <<>> THEN NoMatch
    ELSE LET m == M(s, <<Head(alts)>> \o rest, i, caps)
         IN IF m.ok THEN m ELSE MAlt(s, Tail(alts), rest, i, caps)

\* text of group n of a match (the empty string when the group did not take part)
Group(s, m, n) ==
    IF m.caps[n] = NoGroup THEN <<>> ELSE SubSeq(s, m.caps[n][1], m.caps[n][2] - 1)

\* A replacement template is a sequence of code points and of group
\* references, group n written as -n.
RECURSIVE Expand(_, _, _)
Expand(repl, s, m) ==
    IF repl = <<>> THEN <<>>
    ELSE IF Len(repl) = 1
         THEN (IF repl[1] < 0 THEN Group(s, m, -repl[1]) ELSE repl)
    ELSE LET mid == Len(repl) \div 2
         IN Expand(SubSeq(repl, 1, mid), s, m) \o Expand(SubSeq(repl, mid + 1, Len(repl)), s, m)

\* re.sub(pattern, repl, s): replace the leftmost non-overlapping matches
\* the leftmost match of re in s that starts at one of the positions a..b,
\* searched in one half of the positions after the other
RECURSIVE FirstMatch(_, _, _, _)
OrIn(left, s, re, a, b) == IF left.m.ok THEN left ELSE FirstMatch(s, re, a, b)

FirstMatch(s, re, a, b) ==
    IF a > b THEN [at |-> 0, m |-> NoMatch]
    ELSE IF a = b THEN [at |-> a, m |-> M(s, <<re>>, a, NoCaps)]
    ELSE OrIn(FirstMatch(s, re, a, (a + b) \div 2), s, re, (a + b) \div 2 + 1, b)

\* the text from position i on, with the match f, the leftmost one from i
\* on, and the matches after it replaced
RECURSIVE SubFrom(_, _, _, _)
SubAt(s, re, repl, i, f) ==
    IF ~f.m.ok THEN SubSeq(s, i, Len(s))
    ELSE SubSeq(s, i, f.at - 1) \o Expand(repl, s, f.m)
         \o (IF f.m.end > f.at THEN SubFrom(s, re, repl, f.m.end)
             ELSE (IF f.at <= Len(s) THEN <<s[f.at]>> ELSE <<>>)
                  \o SubFrom(s, re, repl, f.at + 1))

SubFrom(s, re, repl, i) ==
    IF i > Len(s) + 1 THEN <<>>
    ELSE SubAt(s, re, repl, i, FirstMatch(s, re, i, Len(s) + 1))

Sub(re, repl, s) == SubFrom(s, re, repl, 1)

\* re.search(pattern, s) is not None
Search(re, s) == \E i \in 1..(Len(s) + 1) : M(s, <<re>>, i, NoCaps).ok

\* re.match(pattern, s) is not None
Match(re, s) == M(s, <<re>>, 1, NoCaps).ok

-----------------------------------------------------------------------------
(* Python str methods on texts. *)

\* needle occurs in t at position i
OccursAt(t, needle, i) ==
    /\ i >= 1
    /\ i + Len(needle) - 1 <= Len(t)
    /\ \A k \in 1..Len(needle) : t[i + k - 1] = needle[k]

\* needle in t
Contains(t, needle) == \E i \in 1..Len(t) : OccursAt(t, needle, i)

\* t.find(needle, from), 1-based, 0 when there is no occurrence (Python's -1)
Find(t, needle, from) ==
    IF \E i \in from..Len(t) : OccursAt(t, needle, i)
    THEN CHOOSE i \in from..Len(t) :
            /\ OccursAt(t, needle, i)
            /\ \A j \in from..(i - 1) : ~OccursAt(t, needle, j)
    ELSE 0

\* t.replace(needle, repl): the non-overlapping occurrences, left to right
RECURSIVE ReplaceFrom(_, _, _, _)
ReplaceFrom(t, needle, repl, i) ==
    LET p == Find(t, needle, i)
    IN IF p = 0 THEN SubSeq(t, i, Len(t))
       ELSE SubSeq(t, i, p - 1) \o repl \o ReplaceFrom(t, needle, repl, p + Len(needle))

Replace(t, needle, repl) == ReplaceFrom(t, needle, repl, 1)

\* t.split(sep) for a one-character separator
RECURSIVE Split(_, _)
Split(t, sep) ==
    LET p == Find(t, <<sep>>, 1)
    IN IF p = 0 THEN <<t>>
       ELSE <<SubSeq(t, 1, p - 1)>> \o Split(SubSeq(t, p + 1, Len(t)), sep)

\* sep.join(parts)
RECURSIVE Join(_, _)
Join(parts, sep) ==
    IF parts = <<>> THEN <<>>
    ELSE IF Len(parts) = 1 THEN parts[1]
    ELSE parts[1] \o sep \o Join(Tail(parts), sep)

\* t.strip()
RECURSIVE LStrip(_)
LStrip(t) == IF t # <<>> /\ Head(t) \in WS THEN LStrip(Tail(t)) ELSE t

RECURSIVE RStrip(_)
RStrip(t) ==
    IF t # <<>> /\ t[Len(t)] \in WS THEN RStrip(SubSeq(t, 1, Len(t) - 1)) ELSE t

Strip(t) == RStrip(LStrip(t))

\* t.startswith(prefix)
StartsWith(t, prefix) == OccursAt(t, prefix, 1)

-----------------------------------------------------------------------------
(* remove_headers *)
HeaderPattern ==
    Cat(<<Bol(TRUE), Grp(1, Star(In({SP, TAB}))), Rep(Ch(HASH), 1, 6, TRUE),
          Plus(In(WS)), Grp(2, LazyStar(AnyChar(FALSE))), Eol(TRUE)>>)

remove_headers(t) == Sub(HeaderPattern, <<-1, -2>>, t)

-----------------------------------------------------------------------------
(* remove_bold_italic *)

\* the loops "while '**' in text" / "while '__' in text": drop the first
\* delimiter pair, again and again, until no pair is left
RECURSIVE StripPairs(_, _)
StripPairs(t, d) ==
    LET start_pos == Find(t, d, 1)
        search_pos == start_pos + 2
        end_pos == Find(t, d, search_pos)
    IN IF start_pos = 0 THEN t
       ELSE IF end_pos = 0 THEN t
       ELSE StripPairs(SubSeq(t, 1, start_pos - 1)
                         \o SubSeq(t, search_pos, end_pos - 1)
                         \o SubSeq(t, end_pos + 2, Len(t)), d)

\* [^\s c][^c]*?[^\s c]
ItalicBody(c) ==
    Cat(<<NotIn(WS \cup {c}), LazyStar(NotIn({c})), NotIn(WS \cup {c})>>)

\* (\s)c(body)c(\s)
ItalicSpaced(c) ==
    Cat(<<Grp(1, In(WS)), Ch(c), Grp(2, ItalicBody(c)), Ch(c), Grp(3, In(WS))>>)

\* (^|\s)c(body)c
ItalicLeading(c) ==
    Cat(<<Grp(1, Alt(<<Bol(FALSE), In(WS)>>)), Ch(c), Grp(2, ItalicBody(c)), Ch(c)>>)

\* c(body)c($|\s)
ItalicTrailing(c) ==
    Cat(<<Ch(c), Grp(1, ItalicBody(c)), Ch(c), Grp(2, Alt(<<Eol(FALSE), In(WS)>>))>>)

ItalicSubs(l, c) ==
    Sub(ItalicTrailing(c), <<-1, -2>>,
        Sub(ItalicLeading(c), <<-1, -2>>,
            Sub(ItalicSpaced(c), <<-1, -2, -3>>, l)))

ItalicLine(line) ==
    LET l1 == IF Contains(line, <<STAR>>) THEN ItalicSubs(line, STAR) ELSE line
    IN IF Contains(line, <<USCORE>>) THEN ItalicSubs(l1, USCORE) ELSE l1

remove_bold_italic(t) ==
    IF t = <<>> THEN t
    ELSE LET t1 == StripPairs(t, <<STAR, STAR>>)
             t2 == StripPairs(t1, <<USCORE, USCORE>>)
             lines == Split(t2, NL)
         IN Join([i \in 1..Len(lines) |-> ItalicLine(lines[i])], <<NL>>)

-----------------------------------------------------------------------------
(* remove_code_blocks *)
FencePattern(c) ==
    Cat(<<Lit(<<c, c, c>>), Opt(Plus(In(WORD))), Ch(NL),
          Grp(1, LazyStar(AnyChar(TRUE))), Ch(NL), Lit(<<c, c, c>>)>>)

InlineCodePattern ==
    Cat(<<Ch(BTICK), Grp(1, LazyStar(AnyChar(FALSE))), Ch(BTICK)>>)

remove_code_blocks(t) ==
    Sub(InlineCodePattern, <<-1>>,
        Sub(FencePattern(TILDE), <<-1>>,
            Sub(FencePattern(BTICK), <<-1>>, t)))

-----------------------------------------------------------------------------
(* remove_links, remove_images *)
LinkPattern ==
    Cat(<<Ch(LBRK), Grp(1, LazyStar(AnyChar(FALSE))), Ch(RBRK),
          Ch(LPAR), LazyStar(AnyChar(FALSE)), Ch(RPAR)>>)

AutolinkPattern ==
    Cat(<<Ch(LT),
          Grp(1, Cat(<<Lit(<<Lh, Lt, Lt, Lp>>), Opt(Ch(Ls)), Lit(<<COLON, SLASH, SLASH>>),
                       LazyStar(AnyChar(FALSE))>>)),
          Ch(GT)>>)

remove_links(t) == Sub(AutolinkPattern, <<-1>>, Sub(LinkPattern, <<-1>>, t))

ImagePattern == Cat(<<Ch(BANG), LinkPattern>>)

remove_images(t) == Sub(ImagePattern, <<-1>>, t)

-----------------------------------------------------------------------------
(* remove_lists, remove_blockquotes, remove_horizontal_rules *)

\* ^([ \t]*) marker \s+(.*?)$
LinePrefixPattern(marker) ==
    Cat(<<Bol(TRUE), Grp(1, Star(In({SP, TAB}))), marker,
          Plus(In(WS)), Grp(2, LazyStar(AnyChar(FALSE))), Eol(TRUE)>>)

BulletPattern == LinePrefixPattern(In({STAR, DASH, PLUS}))

NumberedPattern == LinePrefixPattern(Cat(<<Plus(In(DIGIT)), Ch(DOT)>>))

remove_lists(t) == Sub(NumberedPattern, <<-1, -2>>, Sub(BulletPattern, <<-1, -2>>, t))

BlockquotePattern == LinePrefixPattern(Ch(GT))

remove_blockquotes(t) == Sub(BlockquotePattern, <<-1, -2>>, t)

RulePattern ==
    Cat(<<Bol(TRUE),
          Alt(<<AtLeast(Ch(STAR), 3), AtLeast(Ch(DASH), 3), AtLeast(Ch(USCORE), 3)>>),
          Eol(TRUE)>>)

remove_horizontal_rules(t) == Sub(RulePattern, <<>>, t)

-----------------------------------------------------------------------------
(* remove_tables *)

\* ((?:^.*\|.*$\n)+)
table_pattern ==
    Grp(1, Plus(Cat(<<Bol(TRUE), Star(AnyChar(FALSE)), Ch(PIPE), Star(AnyChar(FALSE)),
                      Eol(TRUE), Ch(NL)>>)))

\* ^[\s\|\-:]+$
SeparatorPattern ==
    Cat(<<Bol(FALSE), Plus(In(WS \cup {PIPE, DASH, COLON})), Eol(FALSE)>>)

\* the loop "for char in row" with its state (cells, current_cell, in_cell)
RECURSIVE ScanRow(_, _, _, _, _)
ScanRow(row, k, cells, current_cell, in_cell) ==
    IF k > Len(row) THEN [cells |-> cells, current_cell |-> current_cell]
    ELSE IF row[k] = PIPE
         THEN ScanRow(row, k + 1,
                      IF in_cell THEN Append(cells, current_cell) ELSE cells,
                      IF in_cell THEN <<>> ELSE current_cell,
                      TRUE)
         ELSE ScanRow(row, k + 1, cells,
                      IF in_cell THEN Append(current_cell, row[k]) ELSE current_cell,
                      in_cell)

process_row(row) ==
    LET scan == ScanRow(row, 1, <<>>, <<>>, FALSE)
        cells == IF scan.current_cell # <<>>
                 THEN Append(scan.cells, scan.current_cell) ELSE scan.cells
        kept == SelectSeq(cells, LAMBDA cell : Strip(cell) # <<>>)
    IN Join(kept, <<SP, SP>>)

process_table(table_text) ==
    LET rows == SelectSeq(Split(Strip(table_text), NL),
                          LAMBDA row : ~Match(SeparatorPattern, row))
        processed_rows == [k \in 1..Len(rows) |-> process_row(rows[k])]
    IN Join(processed_rows, <<NL>>) \o <<NL>>

\* re.sub(table_pattern, process_table, text)
RECURSIVE TablesFrom(_, _)
TablesFrom(t, i) ==
    IF i > Len(t) + 1 THEN <<>>
    ELSE LET m == M(t, <<table_pattern>>, i, NoCaps)
         IN IF m.ok
            THEN process_table(Group(t, m, 1)) \o TablesFrom(t, m.end)
            ELSE (IF i <= Len(t) THEN <<t[i]>> ELSE <<>>) \o TablesFrom(t, i + 1)

remove_tables(t) == TablesFrom(t, 1)

-----------------------------------------------------------------------------
(* Configuration: the nine element kinds; options is None or a dict that   *)
(* maps some of the kinds to booleans.                                     *)
Kinds == {"headers", "bold_italic", "code_blocks", "links", "images", "lists",
          "blockquotes", "horizontal_rules", "tables"}

\* a lookup that forgets the default: a missing key reads as False
GetWithoutDefault(dict, key, default) == IF key \in DOMAIN dict THEN dict[key] ELSE FALSE

\* dict.get(key, default)
Get(dict, key, default) == IF key \in DOMAIN dict THEN dict[key] ELSE default

None == [isNone |-> TRUE, dict |-> <<>>]
Dict(d) == [isNone |-> FALSE, dict |-> d]

-----------------------------------------------------------------------------
(* force_remove_all_stars_and_underscores *)

\* "while d in text: text = text.replace(d, '')"
RECURSIVE RemoveAll(_, _)
RemoveAll(t, d) == IF Contains(t, d) THEN RemoveAll(Replace(t, d, <<>>), d) ELSE t

\* c(\w[^c\n]*?)c
ForceBody(c) ==
    Cat(<<Ch(c), Grp(1, Cat(<<In(WORD), LazyStar(NotIn({c, NL}))>>)), Ch(c)>>)

ForceSubs(l, c) ==
    Sub(Cat(<<In(WS), ForceBody(c), Eol(FALSE)>>), <<SP, -1>>,
        Sub(Cat(<<Bol(FALSE), ForceBody(c), In(WS)>>), <<-1, SP>>,
            Sub(Cat(<<In(WS), ForceBody(c), In(WS)>>), <<SP, -1, SP>>, l)))

\* [a-zA-Z0-9]c[a-zA-Z0-9]
Flanked(c) == Cat(<<In(ALNUM), Ch(c), In(ALNUM)>>)

ForceChar(l, c) ==
    LET l1 == ForceSubs(l, c)
    IN IF Contains(l1, <<c>>) /\ ~Search(Flanked(c), l1) THEN Replace(l1, <<c>>, <<>>) ELSE l1

ForceLine(line) ==
    LET l1 == IF ~StartsWith(Strip(line), <<STAR>>) /\ Contains(line, <<STAR>>)
              THEN ForceChar(line, STAR) ELSE line
    IN IF Contains(l1, <<USCORE>>) THEN ForceChar(l1, USCORE) ELSE l1

force_remove_all_stars_and_underscores(t, opts) ==
    IF ~Get(opts, "bold_italic", TRUE) THEN t
    ELSE LET t1 == RemoveAll(t, <<STAR, STAR>>)
             t2 == RemoveAll(t1, <<USCORE, USCORE>>)
             lines == Split(t2, NL)
             joined == Join([i \in 1..Len(lines) |-> ForceLine(lines[i])], <<NL>>)
         IN Sub(Ch(EURO), <<>>, joined)

-----------------------------------------------------------------------------
(* clean_unwanted_characters, is_common_unicode *)
unwanted_chars == <<EURO, CENT, YEN, POUND, CURRENCY>>

is_common_unicode(code_point) ==
    \/ code_point <= 127
    \/ (160 <= code_point /\ code_point <= 255)
    \/ (256 <= code_point /\ code_point <= 383)
    \/ (8200 <= code_point /\ code_point <= 8230)

Keep(char) ==
    \/ (char >= 32 /\ char <= 126)
    \/ char \in {NL, TAB, 13}
    \/ is_common_unicode(char)

RECURSIVE RemoveEach(_, _)
RemoveEach(t, chars) ==
    IF chars = <<>> THEN t ELSE RemoveEach(Replace(t, <<Head(chars)>>, <<>>), Tail(chars))

clean_unwanted_characters(t) ==
    IF t = <<>> THEN t
    ELSE SelectSeq(RemoveEach(t, unwanted_chars), Keep)

-----------------------------------------------------------------------------
(* remove_markdown_formatting *)

\* \n{3,}
BlankRunPattern == AtLeast(Ch(NL), 3)

\* one stage of the pipeline, "if options.get(kind, True): text = ...":
\* the text after the stage, given the text before it
code_blocks_stage(t, opts) ==
    IF Get(opts, "code_blocks", TRUE) THEN remove_code_blocks(t) ELSE t

headers_stage(t, opts) ==
    IF Get(opts, "headers", TRUE) THEN remove_headers(t) ELSE t

bold_italic_stage(t, opts) ==
    IF Get(opts, "bold_italic", TRUE)
    THEN force_remove_all_stars_and_underscores(remove_bold_italic(t), opts)
    ELSE t

links_stage(t, opts) ==
    IF Get(opts, "links", TRUE) THEN remove_links(t) ELSE t

images_stage(t, opts) ==
    IF Get(opts, "images", TRUE) THEN remove_images(t) ELSE t

lists_stage(t, opts) ==
    IF Get(opts, "lists", TRUE) THEN remove_lists(t) ELSE t

blockquotes_stage(t, opts) ==
    IF Get(opts, "blockquotes", TRUE) THEN remove_blockquotes(t) ELSE t

horizontal_rules_stage(t, opts) ==
    IF Get(opts, "horizontal_rules", TRUE) THEN remove_horizontal_rules(t) ELSE t

tables_stage(t, opts) ==
    IF Get(opts, "tables", TRUE) THEN remove_tables(t) ELSE t

\* the stages in the order of the source
strippers(t, opts) ==
    tables_stage(
      horizontal_rules_stage(
        blockquotes_stage(
          lists_stage(
            images_stage(
              links_stage(
                bold_italic_stage(
                  headers_stage(
                    code_blocks_stage(t, opts), opts), opts), opts), opts), opts), opts),
        opts), opts)

\* "if options is None": the dict with all nine kinds True
effective_options(o) == IF o.isNone THEN [k \in Kinds |-> TRUE] ELSE o.dict

remove_markdown_formatting(t, o) ==
    IF t = <<>> THEN <<>>
    ELSE clean_unwanted_characters(
            Strip(Sub(BlankRunPattern, <<NL, NL>>, strippers(t, effective_options(o)))))

-----------------------------------------------------------------------------
(* identify_markdown_elements: the highlighter.  It returns HTML, so the   *)
(* strings it inserts are written out as code points.                      *)

\* '<span style="background-color:'
SpanHead ==
    <<60, 115, 112, 97, 110, 32, 115, 116, 121, 108, 101, 61, 34, 98, 97, 99,
      107, 103, 114, 111, 117, 110, 100, 45, 99, 111, 108, 111, 114, 58>>

\* '; color:white;">'
SpanNeck ==
    <<59, 32, 99, 111, 108, 111, 114, 58, 119, 104, 105, 116, 101, 59, 34, 62>>

\* '</span>'
SpanTail ==
    <<60, 47, 115, 112, 97, 110, 62>>

\* '&amp;'
AMP_ENTITY ==
    <<38, 97, 109, 112, 59>>

\* '&lt;'
LT_ENTITY ==
    <<38, 108, 116, 59>>

\* '&gt;'
GT_ENTITY ==
    <<38, 103, 116, 59>>

\* '<br>'
BR ==
    <<60, 98, 114, 62>>

\* '<div style="white-space: pre-wrap; word-wrap: break-word; font-family: monospace; padding: 10px; background-color: #1E1E1E; color: white; border-radius: 4px;">'
DivHead ==
    <<60, 100, 105, 118, 32, 115, 116, 121, 108, 101, 61, 34, 119, 104, 105,
      116, 101, 45, 115, 112, 97, 99, 101, 58, 32, 112, 114, 101, 45, 119,
      114, 97, 112, 59, 32, 119, 111, 114, 100, 45, 119, 114, 97, 112, 58, 32,
      98, 114, 101, 97, 107, 45, 119, 111, 114, 100, 59, 32, 102, 111, 110,
      116, 45, 102, 97, 109, 105, 108, 121, 58, 32, 109, 111, 110, 111, 115,
      112, 97, 99, 101, 59, 32, 112, 97, 100, 100, 105, 110, 103, 58, 32, 49,
      48, 112, 120, 59, 32, 98, 97, 99, 107, 103, 114, 111, 117, 110, 100, 45,
      99, 111, 108, 111, 114, 58, 32, 35, 49, 69, 49, 69, 49, 69, 59, 32, 99,
      111, 108, 111, 114, 58, 32, 119, 104, 105, 116, 101, 59, 32, 98, 111,
      114, 100, 101, 114, 45, 114, 97, 100, 105, 117, 115, 58, 32, 52, 112,
      120, 59, 34, 62>>

\* '</div>'
DivTail ==
    <<60, 47, 100, 105, 118, 62>>

\* '<div style="margin-top: 10px; border-top: 1px solid #ccc; padding-top: 10px;"><p style="font-size: 14px; margin-bottom: 5px;"><strong>Legend:</strong></p><ul style="list-style-type: none; padding-left: 0; font-size: 12px; margin-top: 0;">'
LegendHead ==
    <<60, 100, 105, 118, 32, 115, 116, 121, 108, 101, 61, 34, 109, 97, 114,
      103, 105, 110, 45, 116, 111, 112, 58, 32, 49, 48, 112, 120, 59, 32, 98,
      111, 114, 100, 101, 114, 45, 116, 111, 112, 58, 32, 49, 112, 120, 32,
      115, 111, 108, 105, 100, 32, 35, 99, 99, 99, 59, 32, 112, 97, 100, 100,
      105, 110, 103, 45, 116, 111, 112, 58, 32, 49, 48, 112, 120, 59, 34, 62,
      60, 112, 32, 115, 116, 121, 108, 101, 61, 34, 102, 111, 110, 116, 45,
      115, 105, 122, 101, 58, 32, 49, 52, 112, 120, 59, 32, 109, 97, 114, 103,
      105, 110, 45, 98, 111, 116, 116, 111, 109, 58, 32, 53, 112, 120, 59, 34,
      62, 60, 115, 116, 114, 111, 110, 103, 62, 76, 101, 103, 101, 110, 100,
      58, 60, 47, 115, 116, 114, 111, 110, 103, 62, 60, 47, 112, 62, 60, 117,
      108, 32, 115, 116, 121, 108, 101, 61, 34, 108, 105, 115, 116, 45, 115,
      116, 121, 108, 101, 45, 116, 121, 112, 101, 58, 32, 110, 111, 110, 101,
      59, 32, 112, 97, 100, 100, 105, 110, 103, 45, 108, 101, 102, 116, 58,
      32, 48, 59, 32, 102, 111, 110, 116, 45, 115, 105, 122, 101, 58, 32, 49,
      50, 112, 120, 59, 32, 109, 97, 114, 103, 105, 110, 45, 116, 111, 112,
      58, 32, 48, 59, 34, 62>>

\* '<li><span style="display: inline-block; width: 12px; height: 12px; background-color: '
ItemHead ==
    <<60, 108, 105, 62, 60, 115, 112, 97, 110, 32, 115, 116, 121, 108, 101,
      61, 34, 100, 105, 115, 112, 108, 97, 121, 58, 32, 105, 110, 108, 105,
      110, 101, 45, 98, 108, 111, 99, 107, 59, 32, 119, 105, 100, 116, 104,
      58, 32, 49, 50, 112, 120, 59, 32, 104, 101, 105, 103, 104, 116, 58, 32,
      49, 50, 112, 120, 59, 32, 98, 97, 99, 107, 103, 114, 111, 117, 110, 100,
      45, 99, 111, 108, 111, 114, 58, 32>>

\* '; margin-right: 5px;"></span> '
ItemNeck ==
    <<59, 32, 109, 97, 114, 103, 105, 110, 45, 114, 105, 103, 104, 116, 58,
      32, 53, 112, 120, 59, 34, 62, 60, 47, 115, 112, 97, 110, 62, 32>>

\* '</li>'
ItemTail ==
    <<60, 47, 108, 105, 62>>

\* '</ul></div>'
LegendTail ==
    <<60, 47, 117, 108, 62, 60, 47, 100, 105, 118, 62>>

\* the keys of element_colors, in the order of the dict
element_order ==
    <<"headers", "bold_italic", "code_blocks", "links", "images", "lists",
      "blockquotes", "horizontal_rules", "tables">>

\* the keys as texts
element_keys ==
    [headers |-> <<104, 101, 97, 100, 101, 114, 115>>,   \* headers
     bold_italic |-> <<98, 111, 108, 100, 95, 105, 116, 97, 108, 105, 99>>,   \* bold_italic
     code_blocks |-> <<99, 111, 100, 101, 95, 98, 108, 111, 99, 107, 115>>,   \* code_blocks
     links |-> <<108, 105, 110, 107, 115>>,   \* links
     images |-> <<105, 109, 97, 103, 101, 115>>,   \* images
     lists |-> <<108, 105, 115, 116, 115>>,   \* lists
     blockquotes |-> <<98, 108, 111, 99, 107, 113, 117, 111, 116, 101, 115>>,   \* blockquotes
     horizontal_rules |-> <<104, 111, 114, 105, 122, 111, 110, 116, 97, 108, 95, 114, 117, 108, 101, 115>>,   \* horizontal_rules
     tables |-> <<116, 97, 98, 108, 101, 115>>]   \* tables

element_colors ==
    [headers |-> <<35, 70, 70, 53, 55, 51, 51>>,   \* #FF5733
     bold_italic |-> <<35, 51, 51, 65, 56, 70, 70>>,   \* #33A8FF
     code_blocks |-> <<35, 51, 51, 70, 70, 53, 55>>,   \* #33FF57
     links |-> <<35, 70, 70, 51, 51, 65, 56>>,   \* #FF33A8
     images |-> <<35, 65, 56, 51, 51, 70, 70>>,   \* #A833FF
     lists |-> <<35, 70, 70, 68, 55, 48, 48>>,   \* #FFD700
     blockquotes |-> <<35, 70, 70, 65, 53, 48, 48>>,   \* #FFA500
     horizontal_rules |-> <<35, 56, 48, 56, 48, 56, 48>>,   \* #808080
     tables |-> <<35, 48, 48, 56, 48, 56, 48>>]   \* #008080

\* <span style="background-color:{color}; color:white;">{body}</span>, as
\* a piece of a replacement template
Span(kind, body) == SpanHead \o element_colors[kind] \o SpanNeck \o body \o SpanTail

\* text.replace('&', '&amp;').replace('<', '&lt;').replace('>', '&gt;')
escape(t) ==
    Replace(Replace(Replace(t, <<AMP>>, AMP_ENTITY), <<LT>>, LT_ENTITY), <<GT>>, GT_ENTITY)

\* ^([ \t]*)(marker\s+)(.*?)$
MarkedLine(marker) ==
    Cat(<<Bol(TRUE), Grp(1, Star(In({SP, TAB}))), Grp(2, Cat(<<marker, Plus(In(WS))>>)),
          Grp(3, LazyStar(AnyChar(FALSE))), Eol(TRUE)>>)

\* (d|e)(.*?)(d|e)
Delimited(d, e, dotall) ==
    Cat(<<Grp(1, Alt(<<Lit(d), Lit(e)>>)), Grp(2, LazyStar(AnyChar(dotall))),
          Grp(3, Alt(<<Lit(d), Lit(e)>>))>>)

\* (?<!\*|_)(\*|_)(?!\*|_)
LoneDelimiter(n) ==
    Cat(<<NotBehind({STAR, USCORE}), Grp(n, Alt(<<Ch(STAR), Ch(USCORE)>>)),
          NotAhead({STAR, USCORE})>>)

\* (?<!\*|_)(\*|_)(?!\*|_)(.*?)(?<!\*|_)(\*|_)(?!\*|_)
ItalicMark ==
    Cat(<<LoneDelimiter(1), Grp(2, LazyStar(AnyChar(FALSE))), LoneDelimiter(3)>>)

\* \[(.*?)\]\((.*?)\)
LinkMark ==
    Cat(<<Ch(LBRK), Grp(1, LazyStar(AnyChar(FALSE))), Ch(RBRK),
          Ch(LPAR), Grp(2, LazyStar(AnyChar(FALSE))), Ch(RPAR)>>)

\* !\[(.*?)\]\((.*?)\)
ImageMark == Cat(<<Ch(BANG), LinkMark>>)

\* ^(\*{3,}|-{3,}|_{3,})$
RuleMark ==
    Cat(<<Bol(TRUE),
          Grp(1, Alt(<<AtLeast(Ch(STAR), 3), AtLeast(Ch(DASH), 3), AtLeast(Ch(USCORE), 3)>>)),
          Eol(TRUE)>>)

\* group 1, the marker of group 2 in a span, group 3
LineTemplate(kind) == <<-1>> \o Span(kind, <<-2>>) \o <<-3>>

\* the delimiter of group 1 in a span, group 2, the one of group 3 in a span
PairTemplate(kind) == Span(kind, <<-1>>) \o <<-2>> \o Span(kind, <<-3>>)

mark_headers(h) == Sub(MarkedLine(Rep(Ch(HASH), 1, 6, TRUE)), LineTemplate("headers"), h)

mark_bold(h) ==
    Sub(Delimited(<<STAR, STAR>>, <<USCORE, USCORE>>, FALSE), PairTemplate("bold_italic"), h)

mark_italic(h) == Sub(ItalicMark, PairTemplate("bold_italic"), h)

mark_code_blocks(h) ==
    Sub(Delimited(<<BTICK, BTICK, BTICK>>, <<TILDE, TILDE, TILDE>>, TRUE),
        PairTemplate("code_blocks"), h)

mark_inline_code(h) ==
    Sub(InlineCodePattern,
        Span("code_blocks", <<BTICK>>) \o <<-1>> \o Span("code_blocks", <<BTICK>>), h)

mark_links(h) ==
    Sub(LinkMark,
        Span("links", <<LBRK>>) \o <<-1>> \o Span("links", <<RBRK, LPAR, -2, RPAR>>), h)

mark_images(h) ==
    Sub(ImageMark,
        Span("images", <<BANG, LBRK>>) \o <<-1>> \o Span("images", <<RBRK, LPAR, -2, RPAR>>), h)

mark_lists(h) == Sub(MarkedLine(In({STAR, DASH, PLUS})), LineTemplate("lists"), h)

mark_numbered_lists(h) ==
    Sub(MarkedLine(Cat(<<Plus(In(DIGIT)), Ch(DOT)>>)), LineTemplate("lists"), h)

mark_blockquotes(h) == Sub(MarkedLine(Ch(GT)), LineTemplate("blockquotes"), h)

mark_horizontal_rules(h) == Sub(RuleMark, Span("horizontal_rules", <<-1>>), h)

mark_tables(h) == Sub(Ch(PIPE), Span("tables", <<PIPE>>), h)

\* the substitutions, in the order of the source
mark_elements(h) ==
    mark_tables(
      mark_horizontal_rules(
        mark_blockquotes(
          mark_numbered_lists(
            mark_lists(
              mark_images(
                mark_links(
                  mark_inline_code(
                    mark_code_blocks(
                      mark_italic(
                        mark_bold(
                          mark_headers(h))))))))))))

\* str.title() on ASCII letters: a letter that follows a letter is made
\* lower case, any other letter upper case
Title(t) ==
    [i \in 1..Len(t) |->
        LET after_letter == i > 1 /\ t[i - 1] \in (65..90) \cup (97..122)
        IN IF t[i] \in 97..122 /\ ~after_letter THEN t[i] - 32
           ELSE IF t[i] \in 65..90 /\ after_letter THEN t[i] + 32
           ELSE t[i]]

\* element.replace('_', ' ').title()
readable_name(element) == Title(Replace(element_keys[element], <<USCORE>>, <<SP>>))

\* the loop "for element, color in element_colors.items()"
RECURSIVE LegendItems(_)
LegendItems(elements) ==
    IF elements = <<>> THEN <<>>
    ELSE ItemHead \o element_colors[Head(elements)] \o ItemNeck
           \o readable_name(Head(elements)) \o ItemTail
           \o LegendItems(Tail(elements))

legend == LegendHead \o LegendItems(element_order) \o LegendTail

identify_markdown_elements(t) ==
    IF t = <<>> THEN <<>>
    ELSE DivHead \o Replace(mark_elements(escape(t)), <<NL>>, BR) \o DivTail \o legend

-----------------------------------------------------------------------------
(* clean_markdown: one run of the command-line tool with the clipboard     *)
(* available.  It reads the clipboard, returns at once when it is empty,   *)
(* cleans with no options and copies the result back to the clipboard.     *)
MaxRuns == 2

clean_markdown ==
    /\ fn \in {"none", "clean_markdown"}
    /\ runs < MaxRuns
    /\ text # <<>>
    /\ out' = remove_markdown_formatting(text, None)
    /\ text' = out'
    /\ prev' = out
    /\ runs' = runs + 1
    /\ fn' = "clean_markdown"
    /\ UNCHANGED <<options, session_state, clicked_text>>

(* A direct call of one function of the module on the text. *)
Call(name, result) ==
    /\ fn = "none"
    /\ fn' = name
    /\ out' = result
    /\ UNCHANGED <<text, options, prev, runs, session_state, clicked_text>>

Call_remove_headers == Call("remove_headers", remove_headers(text))
Call_remove_bold_italic == Call("remove_bold_italic", remove_bold_italic(text))
Call_remove_code_blocks == Call("remove_code_blocks", remove_code_blocks(text))
Call_remove_links == Call("remove_links", remove_links(text))
Call_remove_images == Call("remove_images", remove_images(text))
Call_remove_lists == Call("remove_lists", remove_lists(text))
Call_remove_blockquotes == Call("remove_blockquotes", remove_blockquotes(text))
Call_remove_horizontal_rules == Call("remove_horizontal_rules", remove_horizontal_rules(text))
Call_remove_tables == Call("remove_tables", remove_tables(text))
Call_clean_unwanted_characters == Call("clean_unwanted_characters", clean_unwanted_characters(text))
Call_remove_markdown_formatting ==
    Call("remove_markdown_formatting", remove_markdown_formatting(text, options))
Call_identify_markdown_elements ==
    Call("identify_markdown_elements", identify_markdown_elements(text))

Next ==
    \/ clean_markdown
    \/ Call_remove_headers
    \/ Call_remove_bold_italic
    \/ Call_remove_code_blocks
    \/ Call_remove_links
    \/ Call_remove_images
    \/ Call_remove_lists
    \/ Call_remove_blockquotes
    \/ Call_remove_horizontal_rules
    \/ Call_remove_tables
    \/ Call_clean_unwanted_characters
    \/ Call_remove_markdown_formatting
    \/ Call_identify_markdown_elements

-----------------------------------------------------------------------------
(* main.py: the Streamlit page.  The script runs again from the top after  *)
(* every interaction with a widget; an action is one such run.  In these   *)
(* actions text is the content of the input text area (markdown_text) and  *)
(* options is the dict formatting_options built from the checkboxes.       *)

\* st.session_state before the first click: none of the keys is set, which
\* "'show_result' in st.session_state and st.session_state.show_result"
\* reads as False
NoSession == [show_result |-> FALSE, cleaned_text |-> <<>>, formatting_options |-> None]

\* the kinds with a checkbox; bold_italic is always True
Checkboxes == Kinds \ {"bold_italic"}

\* at most this many checkboxes are unticked at a time
MaxUnticked == 1

Unticked(o) == {k \in Checkboxes : ~o.dict[k]}

\* the user edits the text area: a run in which the button returns False
EditText(t) ==
    /\ t # text
    /\ text' = t
    /\ UNCHANGED <<options, fn, out, prev, runs, session_state, clicked_text>>

\* the user ticks or unticks a checkbox: a run in which the button returns False
Toggle(kind) ==
    /\ kind \in Checkboxes
    /\ options.dict[kind] => Cardinality(Unticked(options)) < MaxUnticked
    /\ options' = Dict([options.dict EXCEPT ![kind] = ~@])
    /\ UNCHANGED <<text, fn, out, prev, runs, session_state, clicked_text>>

\* a click that cleans with every kind enabled, whatever the checkboxes say
ClickCleanAllKinds ==
    /\ text # <<>>
    /\ session_state' = [show_result |-> TRUE,
                         cleaned_text |-> remove_markdown_formatting(text, None),
                         formatting_options |-> options]
    /\ clicked_text' = text
    /\ UNCHANGED <<text, options, fn, out, prev, runs>>

\* the user clicks "Clean Markdown" (the button exists only when there is
\* text): a run in which the button returns True
ClickClean ==
    /\ text # <<>>
    /\ session_state' = [show_result |-> TRUE,
                         cleaned_text |-> remove_markdown_formatting(text, options),
                         formatting_options |-> options]
    /\ clicked_text' = text
    /\ UNCHANGED <<text, options, fn, out, prev, runs>>

\* the section "Cleaned Text:" is on the page
ResultShown == text # <<>> /\ session_state.show_result

\* the texts the user types
PageTexts ==
    {<<>>, <<97>>, <<HASH, SP, 97>>, <<DASH, SP, 97>>, <<GT, SP, 97>>}

NextPage ==
    \/ \E t \in PageTexts : EditText(t)
    \/ \E kind \in Checkboxes : Toggle(kind)
    \/ ClickClean

-----------------------------------------------------------------------------
(* Inputs. *)

\* all texts over the alphabet A of length at most n
RECURSIVE Texts(_, _)
Texts(A, n) ==
    IF n = 0 THEN {<<>>}
    ELSE LET T == Texts(A, n - 1) IN T \cup {Append(x, c) : x \in T, c \in A}

AllEnabled == Dict([k \in Kinds |-> TRUE])

\* every kind enabled but one
AllBut(kind) == Dict([k \in Kinds |-> k # kind])

InitWith(T, O) ==
    /\ text \in T
    /\ options \in O
    /\ fn = "none"
    /\ out = <<>>
    /\ prev = <<>>
    /\ runs = 0
    /\ session_state = NoSession
    /\ clicked_text = <<>>

\* number of occurrences of the character c in t
Count(t, c) == Cardinality({i \in 1..Len(t) : t[i] = c})

-----------------------------------------------------------------------------
(* Line-leading markers: lists, headers, quotes ("-", "#", ">", " ", "a"). *)
MaxLen == 5

Init == InitWith(Texts({DASH, HASH, GT, SP, 97}, MaxLen), {None, AllEnabled})

Spec == Init /\ [][Next]_vars

\* C1: cleaning an already cleaned text changes nothing: the second run of
\* the full pipeline (all nine kinds enabled) returns what the first returned.
Idempotent == (fn = "clean_markdown" /\ runs = 2) => out = prev

-----------------------------------------------------------------------------
(* One kind disabled: emphasis characters, rules and lines. *)
MaxLenIsolation == 4

InitIsolation ==
    InitWith(Texts({STAR, USCORE, NL, 97}, MaxLenIsolation), {AllBut(k) : k \in Kinds})

SpecIsolation == InitIsolation /\ [][Next]_vars

\* the line is a horizontal rule: remove_horizontal_rules would blank it
IsRule(line) == Match(RulePattern, line)

\* C2 (for the kind horizontal_rules): with horizontal_rules set to False and
\* the other eight kinds enabled, every horizontal-rule line of the input is
\* a line of the output, verbatim.
RulesKeptWhenDisabled ==
    (fn = "remove_markdown_formatting" /\ options = AllBut("horizontal_rules"))
        => LET inl == Split(text, NL)
               outl == Split(out, NL)
           IN \A i \in 1..Len(inl) :
                 IsRule(inl[i]) => \E j \in 1..Len(outl) : outl[j] = inl[i]

-----------------------------------------------------------------------------
(* Configurations: None, the dicts that leave out or disable a few kinds   *)
(* and the dicts that mention only a few kinds; one sample text per kind.  *)
MaxTouched == 2

\* the dicts over the kinds not in absent, False on off and True elsewhere
DictOf(absent, off) == Dict([k \in Kinds \ absent |-> k \notin off])

\* the pairs of disjoint sets of kinds with at most MaxTouched kinds in all
Few == {S \in SUBSET Kinds : Cardinality(S) <= MaxTouched}

FewPairs ==
    {p \in Few \X Few :
        /\ p[1] \cap p[2] = {}
        /\ Cardinality(p[1] \cup p[2]) <= MaxTouched}

\* all kinds present and True, but a few: p[1] left out, p[2] False
DenseDicts == {DictOf(p[1], p[2]) : p \in FewPairs}

\* only a few kinds present: p[1] True, p[2] False
SparseDicts == {DictOf(Kinds \ (p[1] \cup p[2]), p[2]) : p \in FewPairs}

SampleTexts ==
    { <<HASH, SP, 97>>,                                   \* "# a"
      <<STAR, STAR, 97, STAR, STAR>>,                     \* "**a**"
      <<BTICK, 97, BTICK>>,                               \* "`a`"
      <<LBRK, 97, RBRK, LPAR, 98, RPAR>>,                 \* "[a](b)"
      <<97, BANG, LBRK, 98, RBRK, LPAR, 99, RPAR>>,       \* "a![b](c)"
      <<DASH, SP, 97>>,                                   \* "- a"
      <<GT, SP, 97>>,                                     \* "> a"
      <<97, NL, DASH, DASH, DASH, NL, 97>>,               \* "a\n---\na"
      <<PIPE, 97, PIPE, 98, PIPE, NL>>,                   \* "|a|b|\n"
      <<HASH, SP, STAR, 97, STAR, SP, BTICK, 98, BTICK, NL,
        GT, SP, LBRK, 97, RBRK, LPAR, 98, RPAR, NL,
        USCORE, USCORE, USCORE, NL, PIPE, 97, PIPE, NL,
        49, DOT, SP, BANG, LBRK, 97, RBRK, LPAR, 98, RPAR>> }
        \* "# *a* `b`\n> [a](b)\n___\n|a|\n1. ![a](b)"

InitDefaults == InitWith(SampleTexts, {None} \cup DenseDicts \cup SparseDicts)

SpecDefaults == InitDefaults /\ [][Next]_vars

\* the kinds a configuration does not explicitly map to False
EnabledKinds(o) ==
    IF o.isNone THEN Kinds
    ELSE {k \in Kinds : ~(k \in DOMAIN o.dict /\ o.dict[k] = FALSE)}

\* C3: remove_markdown_formatting returns, for None and for every partial
\* dict, what it returns for the full dict that maps a kind to False exactly
\* when the given configuration maps it to False explicitly (so None is all
\* nine kinds True, and a missing key is True).
DefaultsEnabled ==
    fn = "remove_markdown_formatting"
        => out = remove_markdown_formatting(
                    text, Dict([k \in Kinds |-> k \in EnabledKinds(options)]))

\* a dict without the key "headers" was given and the header marker was stripped
DefaultsWitness ==
    /\ fn = "remove_markdown_formatting"
    /\ ~options.isNone
    /\ DOMAIN options.dict = {"links"}
    /\ text = <<HASH, SP, 97>>
    /\ out = <<97>>

-----------------------------------------------------------------------------
(* Image tokens: text before, "![" alt "](" url ")", text after; the parts *)
(* are words over "a", "b".                                                *)
MaxPart == 2

Parts == Texts({97, 98}, MaxPart)

Words == Parts \ {<<>>}

ImageToken(alt, url) == <<BANG, LBRK>> \o alt \o <<RBRK, LPAR>> \o url \o <<RPAR>>

InitImages ==
    InitWith({pre \o ImageToken(alt, url) \o post :
                 pre \in Parts, alt \in Words, url \in Words, post \in Parts},
             {None})

SpecImages == InitImages /\ [][Next]_vars

\* C4: with all kinds enabled an image token is replaced by its alt text, and
\* nothing else of it is left: the output is the text around the token with
\* the alt text in the token's place.
ImageBecomesAlt ==
    fn = "remove_markdown_formatting"
        => \A pre \in Parts, alt \in Words, url \in Words, post \in Parts :
              text = pre \o ImageToken(alt, url) \o post => out = pre \o alt \o post

-----------------------------------------------------------------------------
(* Emphasis delimiters and identifiers ("*", "_", " ", "a"). *)
MaxLenEmphasis == 5

InitEmphasis == InitWith(Texts({STAR, USCORE, SP, 97}, MaxLenEmphasis), {None})

SpecEmphasis == InitEmphasis /\ [][Next]_vars

\* the delimiter d opens in t and no d follows its opening
Unmatched(t, d) == Find(t, d, 1) # 0 /\ Find(t, d, Find(t, d, 1) + 2) = 0

\* C5: an opening "**" (or "__") that no closing "**" (or "__") follows is
\* still in the output of remove_markdown_formatting.
UnmatchedDelimiterKept ==
    fn = "remove_markdown_formatting"
        => \A d \in {<<STAR, STAR>>, <<USCORE, USCORE>>} :
              Unmatched(text, d) => Contains(out, d)

\* the underscores of t that stand between two alphanumeric characters
FlankedUnderscores(t) ==
    {i \in 2..(Len(t) - 1) : t[i] = USCORE /\ t[i - 1] \in ALNUM /\ t[i + 1] \in ALNUM}

\* C9: every underscore that stands between two alphanumeric characters is
\* still in the output of remove_markdown_formatting: the output has at
\* least as many underscores as the input has such underscores.
IdentifierUnderscoresKept ==
    fn = "remove_markdown_formatting"
        => Count(out, USCORE) >= Cardinality(FlankedUnderscores(text))

-----------------------------------------------------------------------------
(* Code fences ("`", newline, "a"). *)
MaxLenFence == 6

InitFence == InitWith(Texts({BTICK, NL, 97}, MaxLenFence), {None})

SpecFence == InitFence /\ [][Next]_vars

\* t starts with a fence line: three backticks, an optional language tag,
\* a line break
OpensFence(t) ==
    /\ StartsWith(t, <<BTICK, BTICK, BTICK>>)
    /\ \E p \in 4..Len(t) : t[p] = NL /\ \A k \in 4..(p - 1) : t[k] \in WORD

\* C6: a text that opens a fence and holds no other backtick (so no closing
\* fence) comes back from remove_code_blocks unchanged.
UnterminatedFenceKept ==
    (fn = "remove_code_blocks" /\ OpensFence(text) /\ Count(text, BTICK) = 3)
        => out = text

-----------------------------------------------------------------------------
(* Blank lines (newline, "a", the cent sign). *)
MaxLenBlank == 7

InitBlank == InitWith(Texts({NL, 97, CENT}, MaxLenBlank), {None})

SpecBlank == InitBlank /\ [][Next]_vars

\* C7: the text remove_markdown_formatting returns has no three consecutive
\* empty lines (four line breaks in a row).
NoThreeEmptyLines ==
    fn = "remove_markdown_formatting" => ~Contains(out, <<NL, NL, NL, NL>>)

-----------------------------------------------------------------------------
(* Characters at the borders of the sanitizer's ranges: control characters *)
(* 1, 9, 10, 13, 31, 127, 128, 159; printable 32, 97, 126; 160, the cent   *)
(* sign, 383, 384; 8199, 8200, 8230, 8231; the euro sign.                  *)
MaxLenSanitizer == 2

SanitizerAlphabet ==
    {1, TAB, NL, 13, 31, SP, 97, 126, 127, 128, 159, 160, CENT, 383, 384,
     8199, 8200, 8230, 8231, EURO}

InitSanitizer == InitWith(Texts(SanitizerAlphabet, MaxLenSanitizer), {None})

SpecSanitizer == InitSanitizer /\ [][Next]_vars

\* the allow-list: ASCII printable, newline, tab, carriage return, Latin-1
\* Supplement and Latin Extended-A, the punctuation band, without the five
\* currency signs
Allowed(char) ==
    /\ \/ char \in 32..126
       \/ char \in {NL, TAB, 13}
       \/ char \in 160..383
       \/ char \in 8200..8230
    /\ char \notin {EURO, CENT, YEN, POUND, CURRENCY}

\* C8: every character of the output of clean_unwanted_characters (and of
\* remove_markdown_formatting) is on the allow-list.
OutputAllowed ==
    fn \in {"clean_unwanted_characters", "remove_markdown_formatting"}
        => \A i \in 1..Len(out) : Allowed(out[i])

-----------------------------------------------------------------------------
(* Two-column tables: header row, separator row, one data row, with or     *)
(* without a line break after the data row; the cells are words over "a",  *)
(* "b".                                                                    *)
MaxCell == 2

Cells == Texts({97, 98}, MaxCell) \ {<<>>}

Row(c1, c2) == <<PIPE>> \o c1 \o <<PIPE>> \o c2 \o <<PIPE>>

SeparatorRow == <<PIPE, DASH, DASH, DASH, PIPE, DASH, DASH, DASH, PIPE>>

TableText(h1, h2, d1, d2, tail) ==
    Row(h1, h2) \o <<NL>> \o SeparatorRow \o <<NL>> \o Row(d1, d2) \o tail

InitTable ==
    InitWith({TableText(h1, h2, d1, d2, tail) :
                 h1 \in Cells, h2 \in Cells, d1 \in Cells, d2 \in Cells,
                 tail \in {<<>>, <<NL>>}},
             {None})

SpecTable == InitTable /\ [][Next]_vars

\* C10: such a table comes back from remove_markdown_formatting as two lines,
\* the cells of the header row and of the data row joined by two spaces.
TableReduced ==
    fn = "remove_markdown_formatting"
        => \A h1 \in Cells, h2 \in Cells, d1 \in Cells, d2 \in Cells,
              tail \in {<<>>, <<NL>>} :
              text = TableText(h1, h2, d1, d2, tail)
                 => out = h1 \o <<SP, SP>> \o h2 \o <<NL>> \o d1 \o <<SP, SP>> \o d2

-----------------------------------------------------------------------------
(* C11: the highlighter on image tokens and on quoted lines. *)

\* the texts ![alt](url)
ImageTexts == {ImageToken(alt, url) : alt \in Words, url \in Words}

\* the lines "> word", with and without one space of indentation
QuoteTexts == {indent \o <<GT, SP>> \o w : indent \in {<<>>, <<SP>>}, w \in Words}

InitHighlight == InitWith(ImageTexts \cup QuoteTexts, {None})

SpecHighlight == InitHighlight /\ [][Next]_vars

\* the HTML h has a span whose background is the color of the kind
Marked(h, kind) == Contains(h, SpanHead \o element_colors[kind] \o SpanNeck)

\* C11: the highlighter marks an element with the color of its own kind: in
\* the HTML returned for an image token ![alt](url) there is a span with the
\* images color and none with the links color, and in the HTML returned for
\* a line "> word" there is a span with the blockquotes color.
OwnKindColor ==
    fn = "identify_markdown_elements" =>
        /\ text \in ImageTexts => Marked(out, "images") /\ ~Marked(out, "links")
        /\ text \in QuoteTexts => Marked(out, "blockquotes")

-----------------------------------------------------------------------------
(* C12: remove_blockquotes on lines with two quote markers. *)
MaxIndent == 2

Indents == Texts({SP, TAB}, MaxIndent)

\* the lines indentation + ">> " + word
InitNested ==
    InitWith({indent \o <<GT, GT, SP>> \o w : indent \in Indents, w \in Words}, {None})

SpecNested == InitNested /\ [][Next]_vars

\* C12: one application of remove_blockquotes to a line indentation + ">> word"
\* returns the indentation + "> word": one ">" is removed, the second kept.
OneQuoteLevelRemoved ==
    fn = "remove_blockquotes" =>
        \A indent \in Indents, w \in Words :
            text = indent \o <<GT, GT, SP>> \o w => out = indent \o <<GT, SP>> \o w

-----------------------------------------------------------------------------
(* C13: remove_headers on texts of several lines. *)
MaxLenHeaders == 5

InitHeaders == InitWith(Texts({HASH, SP, NL, 97}, MaxLenHeaders), {None})

SpecHeaders == InitHeaders /\ [][Next]_vars

\* the line has the form: optional spaces or tabs, one to six "#", at least
\* one space or tab, content
IsHeaderLine(line) ==
    Match(Cat(<<Star(In({SP, TAB})), Rep(Ch(HASH), 1, 6, TRUE), Plus(In({SP, TAB})),
                Star(AnyChar(FALSE)), Eol(FALSE)>>), line)

\* C13: remove_headers returns as many lines as it was given, and every line
\* that is not a header line is the same line of the result.
OnlyHeaderLinesTouched ==
    fn = "remove_headers" =>
        LET lines == Split(text, NL)
            result == Split(out, NL)
        IN /\ Len(result) = Len(lines)
           /\ \A i \in 1..Len(lines) : ~IsHeaderLine(lines[i]) => result[i] = lines[i]

-----------------------------------------------------------------------------
(* C14: the result on the Streamlit page. *)

\* the page as it is first served: no text, every checkbox ticked
InitPage == InitWith({<<>>}, {AllEnabled})

SpecPage == InitPage /\ [][NextPage]_vars

\* C14, as stated: whenever the section "Cleaned Text:" is on the page, the
\* text in it is remove_markdown_formatting of the current input text with
\* the options currently selected.
ResultFresh ==
    ResultShown =>
        session_state.cleaned_text = remove_markdown_formatting(text, options)

\* C14, amended: whenever the section "Cleaned Text:" is on the page, the
\* text in it is remove_markdown_formatting of the input text and the options
\* as they were at the last click of "Clean Markdown".
ResultOfLastClick ==
    ResultShown =>
        session_state.cleaned_text =
            remove_markdown_formatting(clicked_text, session_state.formatting_options)

\* the section is on the page after the text was edited and a checkbox
\* toggled since the last click, and its text is not the cleaned current text
StaleResultShown ==
    /\ ResultShown
    /\ text # clicked_text
    /\ options # session_state.formatting_options
    /\ session_state.cleaned_text # remove_markdown_formatting(text, options)

====
